---- MODULE Spec2Model ----
(***************************************************************************)
(* A model of the document research agent: the Workflow orchestrator       *)
(* (src/src/workflow.py), the ResearchAgent (src/src/agents/               *)
(* research_agent.py), the WebScraperTool (src/src/tools/web_scraper.py),  *)
(* the AnalysisAgent (src/src/agents/analysis_agent.py) and the Config and *)
(* Company / ResearchResult models.  The two external services (FireCrawl  *)
(* and the chat model) are opaque: every response they can give is drawn   *)
(* nondeterministically from small sets.                                   *)
(*                                                                         *)
(* Encoding of Python values:                                              *)
(*   None            the string None ("None" is not used as a text value)  *)
(*   Optional[bool]  one of the strings "True", "False", None              *)
(*   Optional[X]     returned by a function: a sequence of length 0 or 1   *)
(*   dict from an external service: [has |-> keys present,                 *)
(*       bad |-> keys whose value has a type the Company model rejects,    *)
(*       val |-> the values, total, of the field's own type]               *)
(***************************************************************************)
EXTENDS Integers, Sequences, FiniteSets, TLC

VARIABLES
    config,          \* Workflow.config: the two API keys ("" is a missing key)
    wf,              \* "none" | "ready": whether a Workflow instance exists
    constructed,     \* the agents the last constructor call has built
    ctor_config,     \* the keys validate_keys() saw in the last constructor call
    ctor_error,      \* the keys named by the constructor's ValueError, <<>> if none
    pc,              \* position of the caller inside run(); "idle" between calls
    query,           \* run's query argument
    max_results,     \* run's max_results argument
    start_time,      \* run's start_time
    pending,         \* search_and_scrape: entries of search_result['data'] still to visit
    scraped_results, \* search_and_scrape: results so far, then search_companies' list
    companies,       \* search_companies: the companies list
    disc,            \* what the loop over scraped_results produced, in order
    extra,           \* what _generate_companies_with_llm returned, in order
    calls,           \* the calls the current operation has issued, in order
    outcome,         \* "none" | "returned" | "raised": how the last run() ended
    path,            \* "none" | "empty" | "success" | "failure": run's return statement
    result,          \* the ResearchResult the last run() returned
    health,          \* the dict the last health_check() returned
    clock,           \* the last reading of time.time()
    last_op,         \* the last of research_company, compare_companies and
                     \* get_recommendations the caller made, "none" if none
    args,            \* its arguments
    scraped_data,    \* get_company_details: the scraped_data, <<>> if none
    ret              \* what it returned

vars == <<config, wf, constructed, ctor_config, ctor_error, pc, query, max_results,
          start_time, pending, scraped_results, companies, disc, extra, calls, outcome, path,
          result, health, clock, last_op, args, scraped_data, ret>>

ctorVars == <<config, wf, constructed, ctor_config, ctor_error>>
runVars == <<pc, query, max_results, start_time, pending, scraped_results, companies,
             disc, extra, calls, outcome, path, result>>
opVars == <<last_op, args, scraped_data, ret>>

-----------------------------------------------------------------------------
(* Bounds of the model.                                                    *)

MaxCap == 2      \* largest max_results a caller passes
MaxUrls == 2     \* most entries in one search response
MaxGen == 2      \* most elements in one generated JSON array
MaxClock == 1    \* latest reading of the clock

-----------------------------------------------------------------------------
(* Python values.                                                          *)

None == "None"

Min(a, b) == IF a < b THEN a ELSE b

\* seq[:n] for n >= 0
Take(seq, n) == SubSeq(seq, 1, Min(n, Len(seq)))

\* d.get(k, default)
Get(d, k, default) == IF k \in d.has THEN d.val[k] ELSE default

\* bool(d.get(k)) for a text field: absent, None and "" are falsy,
\* a value of another type (a number, an object) is taken to be truthy
Truthy(d, k) == k \in d.has /\ (k \in d.bad \/ d.val[k] \notin {"", None})

-----------------------------------------------------------------------------
(* Company (src/src/models/company.py).                                    *)

CompanyFields ==
    {"name", "website", "description", "pricing_model", "is_open_source",
     "tech_stack", "language_support", "api_available",
     "integration_capabilities", "category", "github_url", "documentation_url"}

\* the field defaults of the model; name is required and has none
CompanyDefaults ==
    [name |-> "", website |-> None, description |-> None, pricing_model |-> None,
     is_open_source |-> FALSE, tech_stack |-> <<>>, language_support |-> <<>>,
     api_available |-> None, integration_capabilities |-> <<>>, category |-> None,
     github_url |-> None, documentation_url |-> None]

\* Company(**kw) raises ValidationError unless name is given and every given
\* value has its field's type; the only constraint on name is its type
CompanyValid(kw) == "name" \in kw.has /\ kw.has \cap kw.bad = {}

\* the record Company(**kw) builds: a given field as given, the others by default
Company(kw) ==
    [f \in CompanyFields |-> IF f \in kw.has THEN kw.val[f] ELSE CompanyDefaults[f]]

-----------------------------------------------------------------------------
(* What FireCrawl can answer.                                              *)

ExtractKeys ==
    {"company_name", "description", "pricing_model", "is_open_source", "tech_stack",
     "language_support", "api_available", "integrations", "github_url",
     "documentation_url"}

ExtractBlank ==
    [company_name |-> "", description |-> "", pricing_model |-> "",
     is_open_source |-> FALSE, tech_stack |-> <<>>, language_support |-> <<>>,
     api_available |-> None, integrations |-> <<>>, github_url |-> "",
     documentation_url |-> ""]

\* {}, a page with nothing extracted: also what .get('extract', {}) and
\* .get('extracted_data', {}) default to
EmptyMap == [has |-> {}, bad |-> {}, val |-> ExtractBlank]

\* every field extracted
ExDocker ==
    [has |-> ExtractKeys, bad |-> {},
     val |-> [company_name |-> "Docker", description |-> "containers",
              pricing_model |-> "freemium", is_open_source |-> TRUE,
              tech_stack |-> <<"Go">>, language_support |-> <<"Python", "Go">>,
              api_available |-> "True", integrations |-> <<"AWS">>,
              github_url |-> "github.com/docker", documentation_url |-> "docs.docker.com"]]

\* company_name is the empty string
ExEmptyName ==
    [has |-> {"company_name", "description"}, bad |-> {},
     val |-> [ExtractBlank EXCEPT !.description = "a page"]]

\* tech_stack is not a list of strings
ExBadType ==
    [has |-> {"company_name", "tech_stack"}, bad |-> {"tech_stack"},
     val |-> [ExtractBlank EXCEPT !.company_name = "Kafka"]]

ExtractionMaps == {EmptyMap, ExDocker, ExEmptyName, ExBadType}

\* scrape_url's answers: it raises, it reports failure, or it succeeds with a map
ScrapeOutcomes ==
    {[kind |-> "raise", extract |-> EmptyMap], [kind |-> "fail", extract |-> EmptyMap]}
    \cup {[kind |-> "ok", extract |-> m] : m \in ExtractionMaps}

\* an entry of search_result['data']: a url, an entry without url, or (Malformed)
\* an entry that is no dict, on which result.get raises
Malformed == "<malformed>"
SearchEntries == {"docker.com", "redis.io", "", Malformed}

SeqUpTo(S, n) == UNION {[1..k -> S] : k \in 0..n}

\* search's answers: it raises, it reports failure, or it succeeds with data
SearchOutcomes ==
    {[kind |-> "raise", data |-> <<>>], [kind |-> "fail", data |-> <<>>]}
    \cup {[kind |-> "ok", data |-> d] : d \in SeqUpTo(SearchEntries, MaxUrls)}

-----------------------------------------------------------------------------
(* What the chat model can answer.                                         *)

GenBlank == [CompanyDefaults EXCEPT !.name = ""]

\* a well-formed record with every field
GenMongo ==
    [has |-> CompanyFields, bad |-> {},
     val |-> [name |-> "MongoDB", website |-> "mongodb.com", description |-> "NoSQL",
              pricing_model |-> "freemium", is_open_source |-> TRUE,
              tech_stack |-> <<"C++">>, language_support |-> <<"Python">>,
              api_available |-> "False", integration_capabilities |-> <<"AWS">>,
              category |-> "Database", github_url |-> "github.com/mongodb",
              documentation_url |-> "docs.mongodb.com"]]

\* no name key
GenNoName ==
    [has |-> {"website"}, bad |-> {}, val |-> [GenBlank EXCEPT !.website = "x.org"]]

\* "name": ""
GenEmptyName ==
    [has |-> {"name", "website"}, bad |-> {},
     val |-> [GenBlank EXCEPT !.website = "x.org"]]

\* "tech_stack": null
GenNullList ==
    [has |-> {"name", "tech_stack"}, bad |-> {"tech_stack"},
     val |-> [GenBlank EXCEPT !.name = "Cassandra"]]

\* the elements of a generated array: JSON objects, or a value that is no object
GenElements ==
    {[isobj |-> TRUE, obj |-> g] :
        g \in {GenMongo, GenNoName, GenEmptyName, GenNullList}}
    \cup {[isobj |-> FALSE, obj |-> GenNoName]}

\* llm.invoke for the backfill: it raises, or answers with content that is no
\* string, text that is no JSON, a JSON scalar, a JSON object, or a JSON array
GenResponses ==
    {[kind |-> k, elems |-> <<>>] : k \in {"raise", "nonstr", "notjson", "scalar", "object"}}
    \cup {[kind |-> "array", elems |-> e] : e \in SeqUpTo(GenElements, MaxGen)}

\* an element of a generated array from which Company(**element) builds a record
WellFormed(e) == e.isobj /\ CompanyValid(e.obj)

\* an element that is an object whose only fault is that it has no name
Nameless(e) == e.isobj /\ "name" \notin e.obj.has /\ e.obj.has \cap e.obj.bad = {}

\* the shape of an answer to the backfill: its kind and, of an array, whether
\* every element is a JSON object, whether every object is well-formed, and
\* whether the objects that are not merely lack the name
Shape(resp) ==
    IF resp.kind # "array" THEN resp.kind
    ELSE IF \E i \in 1..Len(resp.elems) : ~resp.elems[i].isobj THEN "array of non-objects"
    ELSE IF \A i \in 1..Len(resp.elems) : WellFormed(resp.elems[i]) THEN "array of objects"
    ELSE IF \A i \in 1..Len(resp.elems) :
               WellFormed(resp.elems[i]) \/ Nameless(resp.elems[i])
    THEN "array with nameless objects"
    ELSE "array with invalid objects"

\* the records of the well-formed elements of an answer to the backfill, in the
\* order of the array
RECURSIVE WellFormedOf(_)
WellFormedOf(elems) ==
    IF elems = <<>> THEN <<>>
    ELSE (IF WellFormed(Head(elems)) THEN <<Company(Head(elems).obj)>> ELSE <<>>)
         \o WellFormedOf(Tail(elems))

\* llm.invoke for the analysis: it raises, or answers with a string content or
\* with a content that is a list of blocks
AnalysisResponses ==
    {[kind |-> "raise", content |-> ""], [kind |-> "list", content |-> ""],
     [kind |-> "str", content |-> "Test analysis"]}

-----------------------------------------------------------------------------
(* The log of calls.                                                       *)

\* a call: the operation, its text argument (the query or the url), its number
\* (the search limit or the count asked for), the records passed, and the kind
\* of answer it got
\*   "search"             firecrawl_app.search
\*   "scrape"             firecrawl_app.scrape_url
\*   "generate"           llm.invoke of _generate_companies_with_llm
\*   "analyze_companies"  AnalysisAgent.analyze_companies, called by run
\*   "analyze"            llm.invoke of analyze_companies
\*   "probe_llm", "probe_firecrawl"   the two probes of health_check
\* The answer of a scrape is not logged (it is in scraped_results); of the
\* answer of generate, its shape is, with (as recs) the records of its
\* well-formed elements.
Call(op, arg, n, recs, out) ==
    [op |-> op, arg |-> arg, n |-> n, recs |-> recs, out |-> out]

\* the calls of log with operation op, in order
CallsOf(log, op) == SelectSeq(log, LAMBDA c : c.op = op)

-----------------------------------------------------------------------------
(* Config (src/src/utils/config.py).                                       *)

Configs == [openai_api_key : {"", "sk-1"}, firecrawl_api_key : {"", "fc-1"}]

\* a validate_keys that forgets the FireCrawl key
validate_keys_openai_only(cfg) ==
    IF cfg.openai_api_key = "" THEN <<"OPENAI_API_KEY">> ELSE <<>>

validate_keys(cfg) ==
    (IF cfg.openai_api_key = "" THEN <<"OPENAI_API_KEY">> ELSE <<>>)
    \o (IF cfg.firecrawl_api_key = "" THEN <<"FIRECRAWL_API_KEY">> ELSE <<>>)

-----------------------------------------------------------------------------
(* WebScraperTool (src/src/tools/web_scraper.py).                          *)

\* _run(url), given scrape_url's answer: an exception and a failure report
\* both become a result with success False
scraper_run(url, out) ==
    IF out.kind = "ok"
    THEN [success |-> TRUE, url |-> url, extracted_data |-> out.extract]
    ELSE [success |-> FALSE, url |-> url, extracted_data |-> EmptyMap]

-----------------------------------------------------------------------------
(* ResearchAgent (src/src/agents/research_agent.py).                       *)

\* the keyword arguments _process_scraped_data passes to Company
ScrapedKw(sd) ==
    LET ex == sd.extracted_data
        renamed(k) == IF k = "company_name" THEN "name"
                      ELSE IF k = "integrations" THEN "integration_capabilities"
                      ELSE k
    IN  [has |-> CompanyFields \ {"category"},
         bad |-> {renamed(k) : k \in ex.has \cap ex.bad},
         val |-> [name |-> Get(ex, "company_name", ""),
                  website |-> sd.url,
                  description |-> Get(ex, "description", ""),
                  pricing_model |-> Get(ex, "pricing_model", ""),
                  is_open_source |-> Get(ex, "is_open_source", FALSE),
                  tech_stack |-> Get(ex, "tech_stack", <<>>),
                  language_support |-> Get(ex, "language_support", <<>>),
                  api_available |-> Get(ex, "api_available", None),
                  integration_capabilities |-> Get(ex, "integrations", <<>>),
                  category |-> None,
                  github_url |-> Get(ex, "github_url", ""),
                  documentation_url |-> Get(ex, "documentation_url", "")]]

\* _process_scraped_data: Optional[Company]; a ValidationError is caught
process_scraped_data(sd) ==
    IF ~Truthy(sd.extracted_data, "company_name") THEN <<>>
    ELSE IF ~CompanyValid(ScrapedKw(sd)) THEN <<>>
    ELSE <<Company(ScrapedKw(sd))>>

\* a loop that an attempt without a record ends
RECURSIVE ProcessScraped_aborting(_)
ProcessScraped_aborting(rs) ==
    IF rs = <<>> THEN <<>>
    ELSE IF ~Head(rs).success \/ process_scraped_data(Head(rs)) = <<>> THEN <<>>
    ELSE process_scraped_data(Head(rs)) \o ProcessScraped_aborting(Tail(rs))

\* the loop of search_companies over scraped_results
RECURSIVE ProcessScraped(_)
ProcessScraped(rs) ==
    IF rs = <<>> THEN <<>>
    ELSE (IF Head(rs).success THEN process_scraped_data(Head(rs)) ELSE <<>>)
         \o ProcessScraped(Tail(rs))

\* json.loads(response.content)
json_loads(resp) ==
    IF resp.kind = "nonstr" THEN [exc |-> "TypeError", islist |-> FALSE, value |-> <<>>]
    ELSE IF resp.kind = "notjson"
    THEN [exc |-> "JSONDecodeError", islist |-> FALSE, value |-> <<>>]
    ELSE [exc |-> "none", islist |-> resp.kind = "array", value |-> resp.elems]

\* the body of _generate_companies_with_llm's outer try: the value returned,
\* or the exception raised to the outer handler
generate_try(resp) ==
    IF resp.kind = "raise" THEN [exc |-> "Exception", val |-> <<>>]
    ELSE LET j == json_loads(resp) IN
         IF j.exc = "JSONDecodeError" THEN [exc |-> "none", val |-> <<>>]
         ELSE IF j.exc # "none" THEN [exc |-> j.exc, val |-> <<>>]
         ELSE IF ~j.islist THEN [exc |-> "none", val |-> <<>>]
         ELSE IF \E i \in 1..Len(j.value) : ~j.value[i].isobj
         THEN [exc |-> "TypeError", val |-> <<>>]
         ELSE IF \E i \in 1..Len(j.value) : ~CompanyValid(j.value[i].obj)
         THEN [exc |-> "ValidationError", val |-> <<>>]
         ELSE [exc |-> "none",
               val |-> [i \in 1..Len(j.value) |-> Company(j.value[i].obj)]]

\* a _generate_companies_with_llm without its outer handler
generate_without_except(resp) == generate_try(resp)

\* _generate_companies_with_llm: except Exception returns []
generate_companies_with_llm(resp) ==
    IF generate_try(resp).exc # "none" THEN [exc |-> "none", val |-> <<>>]
    ELSE generate_try(resp)

\* a search_companies that also generates when the cap is met
needs_backfill_at_cap(cs, m) == Len(cs) <= m

\* search_companies: whether to generate more, and how many
needs_backfill(cs, m) == Len(cs) < m
backfill_count(cs, m) == m - Len(cs)

\* search_companies: companies.extend(additional_companies)
extend(cs, additional) == cs \o additional

\* a search_companies that returns companies without the slice
search_companies_return_all(cs, m) == cs

\* search_companies: return companies[:max_results]
search_companies_return(cs, m) == Take(cs, m)

-----------------------------------------------------------------------------
(* Text.                                                                   *)

\* sep.join(seq) on strings
RECURSIVE Join(_, _)
Join(seq, sep) ==
    IF seq = <<>> THEN ""
    ELSE IF Len(seq) = 1 THEN seq[1]
    ELSE seq[1] \o sep \o Join(Tail(seq), sep)

\* x or 'N/A' on an Optional[str]
OrNA(x) == IF x \in {None, ""} THEN "N/A" ELSE x

\* 'Yes' if x else 'No' on a bool
YesNo(b) == IF b THEN "Yes" ELSE "No"

-----------------------------------------------------------------------------
(* AnalysisAgent (src/src/agents/analysis_agent.py).                       *)

AnalysisFailed == "Analysis failed due to an error."
NoCompaniesForQuery == "No companies found for the given query."

\* a summary that tests api_available for truth: unknown is written as "No"
summary_lines_api_falsy(i, company) ==
    <<"\n" \o ToString(i) \o ". **" \o company.name \o "**",
      "   - Website: " \o OrNA(company.website),
      "   - Description: " \o OrNA(company.description),
      "   - Pricing: " \o OrNA(company.pricing_model),
      "   - Open Source: " \o YesNo(company.is_open_source)>>
    \o (IF company.tech_stack # <<>>
        THEN <<"   - Tech Stack: " \o Join(Take(company.tech_stack, 5), ", ")>>
        ELSE <<>>)
    \o (IF company.language_support # <<>>
        THEN <<"   - Language Support: "
               \o Join(Take(company.language_support, 5), ", ")>>
        ELSE <<>>)
    \o <<"   - API Available: " \o YesNo(company.api_available = "True")>>
    \o (IF company.integration_capabilities # <<>>
        THEN <<"   - Integrations: "
               \o Join(Take(company.integration_capabilities, 5), ", ")>>
        ELSE <<>>)
    \o (IF company.category \notin {None, ""}
        THEN <<"   - Category: " \o company.category>>
        ELSE <<>>)

\* _create_companies_summary: the lines of the i-th company
summary_lines(i, company) ==
    <<"\n" \o ToString(i) \o ". **" \o company.name \o "**",
      "   - Website: " \o OrNA(company.website),
      "   - Description: " \o OrNA(company.description),
      "   - Pricing: " \o OrNA(company.pricing_model),
      "   - Open Source: " \o YesNo(company.is_open_source)>>
    \o (IF company.tech_stack # <<>>
        THEN <<"   - Tech Stack: " \o Join(Take(company.tech_stack, 5), ", ")>>
        ELSE <<>>)
    \o (IF company.language_support # <<>>
        THEN <<"   - Language Support: "
               \o Join(Take(company.language_support, 5), ", ")>>
        ELSE <<>>)
    \o (IF company.api_available # None
        THEN <<"   - API Available: " \o YesNo(company.api_available = "True")>>
        ELSE <<>>)
    \o (IF company.integration_capabilities # <<>>
        THEN <<"   - Integrations: "
               \o Join(Take(company.integration_capabilities, 5), ", ")>>
        ELSE <<>>)
    \o (IF company.category \notin {None, ""}
        THEN <<"   - Category: " \o company.category>>
        ELSE <<>>)

\* _create_companies_summary: the lines of the companies from the i-th on
RECURSIVE summary_from(_, _)
summary_from(i, cs) ==
    IF cs = <<>> THEN <<>>
    ELSE summary_lines(i, Head(cs)) \o summary_from(i + 1, Tail(cs))

create_companies_summary(cs) == Join(summary_from(1, cs), "\n")

\* analyze_companies: the prompt (the fixed text of the template shortened)
analyze_prompt(cs, q) ==
    "Based on the following research results for the query: \"" \o q \o "\"\n"
    \o create_companies_summary(cs)
    \o "\nPlease provide a comprehensive analysis"

\* an analyze_companies without the test for an empty list
analyze_companies_unguarded(cs, q, resp) ==
    IF resp.kind = "raise"
    THEN [exc |-> "none", type |-> "str", text |-> AnalysisFailed,
          calls |-> <<Call("analyze", q, 0, cs, resp.kind)>>]
    ELSE [exc |-> "none", type |-> resp.kind, text |-> resp.content,
          calls |-> <<Call("analyze", q, 0, cs, resp.kind)>>]

\* an analyze_companies that lets the llm's exception through
analyze_companies_propagating(cs, q, resp) ==
    IF cs = <<>>
    THEN [exc |-> "none", type |-> "str", text |-> NoCompaniesForQuery, calls |-> <<>>]
    ELSE [exc |-> IF resp.kind = "raise" THEN "Exception" ELSE "none",
          type |-> resp.kind, text |-> resp.content,
          calls |-> <<Call("analyze", q, 0, cs, resp.kind)>>]

\* analyze_companies: the value returned, a string or (a content that is a list)
\* not a string; the llm is called only for a non-empty list
analyze_companies(cs, q, resp) ==
    IF cs = <<>>
    THEN [exc |-> "none", type |-> "str", text |-> NoCompaniesForQuery, calls |-> <<>>]
    ELSE IF resp.kind = "raise"
    THEN [exc |-> "none", type |-> "str", text |-> AnalysisFailed,
          calls |-> <<Call("analyze", q, 0, cs, resp.kind)>>]
    ELSE [exc |-> "none", type |-> resp.kind, text |-> resp.content,
          calls |-> <<Call("analyze", q, 0, cs, resp.kind)>>]

-----------------------------------------------------------------------------
(* Workflow.run (src/src/workflow.py).                                     *)

NoResultsMessage ==
    "No companies or tools found for the given query. Please try a different search term."
ResearchFailed == "Research failed due to an error"

\* a ResearchResult built without total_results, which then is its default
ResearchResult_default_total(q, cs, analysis, total, dt) ==
    [query |-> q, companies |-> cs, analysis |-> analysis, total_results |-> 0,
     search_time |-> dt]

\* a ResearchResult that stores a placeholder for an empty query
ResearchResult_placeholder_query(q, cs, analysis, total, dt) ==
    [query |-> IF q = "" THEN "(empty)" ELSE q, companies |-> cs, analysis |-> analysis,
     total_results |-> total, search_time |-> dt]

\* ResearchResult(...): the fields
ResearchResult(q, cs, analysis, total, dt) ==
    [query |-> q, companies |-> cs, analysis |-> analysis, total_results |-> total,
     search_time |-> dt]

NoResult == ResearchResult("", <<>>, None, 0, 0)

\* a duration taken the wrong way round
elapsed_reversed(start, now) == start - now

\* time.time() - start_time, given the reading now
elapsed(start, now) == now - start

\* a try block without the return for an empty list: analyze_companies is
\* called with it
run_try_always_analyzing(q, search_exc, cs, resp, dt) ==
    IF search_exc # "none"
    THEN [exc |-> search_exc, path |-> "none", result |-> NoResult, calls |-> <<>>]
    ELSE LET a == analyze_companies(cs, q, resp)
             made == <<Call("analyze_companies", q, 0, cs, "")>> \o a.calls
         IN  IF a.type # "str"
             THEN [exc |-> "ValidationError", path |-> "none", result |-> NoResult,
                   calls |-> made]
             ELSE [exc |-> "none", path |-> "success",
                   result |-> ResearchResult(q, cs, a.text, Len(cs), dt),
                   calls |-> made]

\* a try block that has only the first company analyzed
run_try_analyzing_first(q, search_exc, cs, resp, dt) ==
    IF search_exc # "none"
    THEN [exc |-> search_exc, path |-> "none", result |-> NoResult, calls |-> <<>>]
    ELSE IF cs = <<>>
    THEN [exc |-> "none", path |-> "empty",
          result |-> ResearchResult(q, <<>>, NoResultsMessage, 0, dt), calls |-> <<>>]
    ELSE LET a == analyze_companies(Take(cs, 1), q, resp)
             made == <<Call("analyze_companies", q, 0, Take(cs, 1), "")>> \o a.calls
         IN  IF a.type # "str"
             THEN [exc |-> "ValidationError", path |-> "none", result |-> NoResult,
                   calls |-> made]
             ELSE [exc |-> "none", path |-> "success",
                   result |-> ResearchResult(q, cs, a.text, Len(cs), dt),
                   calls |-> made]

\* run's try block once search_companies has returned cs (or raised search_exc):
\* the return statement reached and its value, or the exception raised, and the
\* calls made; a ResearchResult whose analysis is no string is a ValidationError
run_try(q, search_exc, cs, resp, dt) ==
    IF search_exc # "none"
    THEN [exc |-> search_exc, path |-> "none", result |-> NoResult, calls |-> <<>>]
    ELSE IF cs = <<>>
    THEN [exc |-> "none", path |-> "empty",
          result |-> ResearchResult(q, <<>>, NoResultsMessage, 0, dt), calls |-> <<>>]
    ELSE LET a == analyze_companies(cs, q, resp)
             made == <<Call("analyze_companies", q, 0, cs, "")>> \o a.calls
         IN  IF a.exc # "none"
             THEN [exc |-> a.exc, path |-> "none", result |-> NoResult, calls |-> made]
             ELSE IF a.type # "str"
             THEN [exc |-> "ValidationError", path |-> "none", result |-> NoResult,
                   calls |-> made]
             ELSE [exc |-> "none", path |-> "success",
                   result |-> ResearchResult(q, cs, a.text, Len(cs), dt),
                   calls |-> made]

\* a run without its handler
run_without_except(q, search_exc, cs, resp, dt) ==
    run_try(q, search_exc, cs, resp, dt)

\* run: except Exception returns the failure result
run(q, search_exc, cs, resp, dt) ==
    LET r == run_try(q, search_exc, cs, resp, dt) IN
    IF r.exc # "none"
    THEN [exc |-> "none", path |-> "failure",
          result |-> ResearchResult(q, <<>>, ResearchFailed, 0, dt), calls |-> r.calls]
    ELSE r

-----------------------------------------------------------------------------
(* Workflow.health_check (src/src/workflow.py).                            *)

\* d[k] = v on a dict
Put(d, k, v) == (k :> v) @@ d

NoComponents == [k \in {} |-> ""]
NoHealth == [status |-> "none", components |-> NoComponents, timestamp |-> 0]

\* a health_check that checks the configuration before the two probes
health_check_config_first(cfg, llm_ok, firecrawl_ok, t) ==
    LET h0 == [status |-> IF validate_keys(cfg) # <<>> THEN "unhealthy" ELSE "healthy",
               components |-> Put(NoComponents, "config",
                                  IF validate_keys(cfg) # <<>> THEN "missing keys"
                                  ELSE "healthy"),
               timestamp |-> t]
        h1 == IF llm_ok
              THEN [h0 EXCEPT !.components = Put(@, "openai", "healthy")]
              ELSE [h0 EXCEPT !.components = Put(@, "openai", "unhealthy"),
                              !.status = "degraded"]
    IN  IF firecrawl_ok
        THEN [h1 EXCEPT !.components = Put(@, "firecrawl", "healthy")]
        ELSE [h1 EXCEPT !.components = Put(@, "firecrawl", "unhealthy"),
                        !.status = "degraded"]

\* health_check, given whether llm.invoke and the firecrawl_app access succeed
health_check(cfg, llm_ok, firecrawl_ok, t) ==
    LET h0 == [status |-> "healthy", components |-> NoComponents, timestamp |-> t]
        h1 == IF llm_ok
              THEN [h0 EXCEPT !.components = Put(@, "openai", "healthy")]
              ELSE [h0 EXCEPT !.components = Put(@, "openai", "unhealthy"),
                              !.status = "degraded"]
        h2 == IF firecrawl_ok
              THEN [h1 EXCEPT !.components = Put(@, "firecrawl", "healthy")]
              ELSE [h1 EXCEPT !.components = Put(@, "firecrawl", "unhealthy"),
                              !.status = "degraded"]
    IN  IF validate_keys(cfg) # <<>>
        THEN [h2 EXCEPT !.components = Put(@, "config", "missing keys"),
                        !.status = "unhealthy"]
        ELSE [h2 EXCEPT !.components = Put(@, "config", "healthy")]

-----------------------------------------------------------------------------
(* The records the caller passes to the Insight operations.                *)

MaxRecs == 2     \* most records in one list passed to compare / recommend

RecMongo == Company(GenMongo)

\* a record with long lists, no pricing and an unknown api_available
RecWide ==
    [CompanyDefaults EXCEPT
        !.name = "Kubernetes",
        !.tech_stack = <<"Go", "etcd", "gRPC", "Docker", "Helm", "CNI">>,
        !.language_support = <<"Go", "Python", "Java", "Rust">>,
        !.integration_capabilities = <<"AWS", "GCP", "Azure", "Prometheus">>]

\* the record normalised from a scrape of docker.com: api_available is True
RecDocker ==
    Company(ScrapedKw(scraper_run("docker.com", [kind |-> "ok", extract |-> ExDocker])))

Records == {RecMongo, RecWide}
RecordLists == SeqUpTo(Records, MaxRecs)

\* the lists passed to analyze_companies
AnalyzedLists == {<<>>, <<RecMongo>>, <<RecDocker>>, <<RecDocker, RecWide>>}

-----------------------------------------------------------------------------
(* AnalysisAgent: the summary, the comparison and the recommendations.     *)

\* compare_companies: the criteria used when none are given
DefaultCriteria == <<"pricing_model", "is_open_source", "api_available", "tech_stack">>

\* compare_companies: the dict built for one company
comparison_entry(company) ==
    [name |-> company.name,
     pricing_model |-> company.pricing_model,
     is_open_source |-> company.is_open_source,
     api_available |-> company.api_available,
     tech_stack |-> company.tech_stack,
     language_support |-> company.language_support,
     integration_capabilities |-> company.integration_capabilities]

comparison_data(cs) == [i \in 1..Len(cs) |-> comparison_entry(cs[i])]

\* ', '.join(l[:3]) if l else 'N/A'
First3OrNA(l) == IF l # <<>> THEN Join(Take(l, 3), ", ") ELSE "N/A"

\* _format_comparison_data: the lines of one entry; None prints as "None", the
\* api_available True / False as "True" / "False"
comparison_lines(data) ==
    <<"\n**" \o data.name \o ":**",
      "- Pricing: " \o data.pricing_model,
      "- Open Source: " \o YesNo(data.is_open_source),
      "- API Available: " \o data.api_available,
      "- Tech Stack: " \o First3OrNA(data.tech_stack),
      "- Language Support: " \o First3OrNA(data.language_support),
      "- Integrations: " \o First3OrNA(data.integration_capabilities)>>

RECURSIVE comparison_lines_of(_)
comparison_lines_of(ds) ==
    IF ds = <<>> THEN <<>>
    ELSE comparison_lines(Head(ds)) \o comparison_lines_of(Tail(ds))

format_comparison_data(ds) == Join(comparison_lines_of(ds), "\n")

\* compare_companies: the prompt (the fixed text of the template shortened)
compare_prompt(criteria, cs) ==
    "Compare these companies/tools based on the following criteria: "
    \o Join(criteria, ", ")
    \o "\nCompanies to compare:\n"
    \o format_comparison_data(comparison_data(cs))
    \o "\nProvide a detailed comparison"

NoCompaniesToCompare == "No companies to compare."
ComparisonFailed == "Comparison failed due to an error."

\* what an operation gives back: the exception raised, or the kind of value
\* returned ("str", "list" for a content that is a list of blocks, "record",
\* "None"), the text or the record, and the calls made
Returns(exc, kind, text, record, made) ==
    [exc |-> exc, kind |-> kind, text |-> text, record |-> record, calls |-> made]

\* a compare_companies that does not default the criteria: ', '.join(None) is a
\* TypeError
agent_compare_without_default(cs, criteria, resp) ==
    IF cs = <<>> THEN Returns("none", "str", NoCompaniesToCompare, <<>>, <<>>)
    ELSE IF criteria = <<>> THEN Returns("TypeError", "none", "", <<>>, <<>>)
    ELSE LET made == <<Call("compare", compare_prompt(criteria[1], cs), 0, cs, resp.kind)>>
         IN  IF resp.kind = "raise"
             THEN Returns("none", "str", ComparisonFailed, <<>>, made)
             ELSE Returns("none", resp.kind, resp.content, <<>>, made)

\* AnalysisAgent.compare_companies(companies, criteria), criteria being <<>>
\* for None and <<list>> for a list: the llm's exception is caught
agent_compare_companies(cs, criteria, resp) ==
    IF cs = <<>> THEN Returns("none", "str", NoCompaniesToCompare, <<>>, <<>>)
    ELSE LET used == IF criteria = <<>> THEN DefaultCriteria ELSE criteria[1]
             made == <<Call("compare", compare_prompt(used, cs), 0, cs, resp.kind)>>
         IN  IF resp.kind = "raise"
             THEN Returns("none", "str", ComparisonFailed, <<>>, made)
             ELSE Returns("none", resp.kind, resp.content, <<>>, made)

\* generate_recommendations: the prompt
recommend_prompt(cs, requirements) ==
    "Based on the following companies and user requirements, provide specific recommendations:\n"
    \o (IF requirements \notin {None, ""}
        THEN "User requirements: " \o requirements
        ELSE "No specific requirements provided.")
    \o "\nAvailable options:\n"
    \o create_companies_summary(cs)
    \o "\nPlease provide"

NoCompaniesToRecommend == "No companies available for recommendations."
RecommendationsFailed == "Recommendations failed due to an error."

\* AnalysisAgent.generate_recommendations(companies, user_requirements)
generate_recommendations(cs, requirements, resp) ==
    IF cs = <<>> THEN Returns("none", "str", NoCompaniesToRecommend, <<>>, <<>>)
    ELSE LET made == <<Call("recommend", recommend_prompt(cs, requirements), 0, cs,
                            resp.kind)>>
         IN  IF resp.kind = "raise"
             THEN Returns("none", "str", RecommendationsFailed, <<>>, made)
             ELSE Returns("none", resp.kind, resp.content, <<>>, made)

-----------------------------------------------------------------------------
(* ResearchAgent.get_company_details.                                      *)

\* an extraction map with every field but k, and one with the name alone
ExWithout(k) == [has |-> ExtractKeys \ {k}, bad |-> {}, val |-> ExDocker.val]
ExNameOnly == [has |-> {"company_name"}, bad |-> {}, val |-> ExDocker.val]

\* scrape_url's answers for the website of one company
DetailScrapeOutcomes ==
    ScrapeOutcomes
    \cup {[kind |-> "ok", extract |-> ExWithout(k)] : k \in ExtractKeys \ {"company_name"}}
    \cup {[kind |-> "ok", extract |-> ExNameOnly]}

\* llm.invoke for the details of one company: as for the backfill, the JSON
\* value asked for being one object
DetailResponses ==
    {[kind |-> k, elems |-> <<>>, obj |-> GenNoName] :
        k \in {"raise", "nonstr", "notjson", "scalar", "array"}}
    \cup {[kind |-> "object", elems |-> <<>>, obj |-> g] :
            g \in {GenMongo, GenNoName, GenEmptyName, GenNullList}}

details_prompt(company_name) == "Research the company/tool: " \o company_name

\* bool(website) on an Optional[str]
Supplied(website) == website \notin {None, ""}

\* the try block of get_company_details: Company(**company_data) of a value
\* that is no object is a TypeError
details_try(company_name, resp) ==
    LET made == <<Call("details", details_prompt(company_name), 0, <<>>, resp.kind)>> IN
    IF resp.kind = "raise" THEN Returns("Exception", "none", "", <<>>, made)
    ELSE IF json_loads(resp).exc # "none"
    THEN Returns(json_loads(resp).exc, "none", "", <<>>, made)
    ELSE IF resp.kind # "object" THEN Returns("TypeError", "none", "", <<>>, made)
    ELSE IF ~CompanyValid(resp.obj) THEN Returns("ValidationError", "none", "", <<>>, made)
    ELSE Returns("none", "record", "", <<Company(resp.obj)>>, made)

\* the fallback of get_company_details: except Exception returns None
details_fallback(company_name, resp) ==
    LET r == details_try(company_name, resp) IN
    IF r.exc # "none" THEN Returns("none", "None", "", <<>>, r.calls) ELSE r

\* a get_company_details that asks the llm only when no website is given
get_company_details_scrape_only(company_name, website, out, resp) ==
    IF Supplied(website)
    THEN LET sd == scraper_run(website, out)
             made == <<Call("scrape", website, 0, <<>>, "")>>
             c == IF sd.success THEN process_scraped_data(sd) ELSE <<>>
         IN  Returns("none", IF c = <<>> THEN "None" ELSE "record", "", c, made)
    ELSE details_fallback(company_name, resp)

\* get_company_details(company_name, website), given scrape_url's answer out
\* and the llm's answer resp: Optional[Company]
get_company_details(company_name, website, out, resp) ==
    LET sd == scraper_run(website, out)
        scraped == IF Supplied(website)
                   THEN <<Call("scrape", website, 0, <<>>, "")>> ELSE <<>>
    IN  IF Supplied(website) /\ sd.success
        THEN LET c == process_scraped_data(sd) IN
             Returns("none", IF c = <<>> THEN "None" ELSE "record", "", c, scraped)
        ELSE LET f == details_fallback(company_name, resp) IN
             Returns(f.exc, f.kind, f.text, f.record, scraped \o f.calls)

-----------------------------------------------------------------------------
(* Workflow: research_company, compare_companies, get_recommendations.     *)

\* research_company: except Exception returns None
research_company(company_name, website, out, resp) ==
    LET r == get_company_details(company_name, website, out, resp) IN
    IF r.exc # "none" THEN Returns("none", "None", "", <<>>, r.calls) ELSE r

\* a compare_companies with neither handler, the agent's nor the Workflow's
workflow_compare_unguarded(cs, criteria, resp) ==
    LET a == agent_compare_companies(cs, criteria, resp) IN
    IF a.calls # <<>> /\ resp.kind = "raise"
    THEN Returns("Exception", "none", "", <<>>, a.calls)
    ELSE a

\* Workflow.compare_companies: except Exception returns the fixed message
workflow_compare_companies(cs, criteria, resp) ==
    LET a == agent_compare_companies(cs, criteria, resp) IN
    IF a.exc # "none" THEN Returns("none", "str", ComparisonFailed, <<>>, a.calls)
    ELSE a

\* Workflow.get_recommendations: except Exception returns the fixed message
get_recommendations(cs, requirements, resp) ==
    LET a == generate_recommendations(cs, requirements, resp) IN
    IF a.exc # "none" THEN Returns("none", "str", RecommendationsFailed, <<>>, a.calls)
    ELSE a

\* the arguments of an operation, with None for those it does not have
Args(cs, criteria, requirements, company_name, website) ==
    [companies |-> cs, criteria |-> criteria, requirements |-> requirements,
     company_name |-> company_name, website |-> website]

NoArgs == Args(<<>>, <<>>, None, None, None)
NoReturn == Returns("none", "none", "", <<>>, <<>>)

-----------------------------------------------------------------------------
(* The state machine.                                                      *)

Queries == {"", "database tools and companies"}
Categories == {"database"}

\* search_by_category: the query it runs
category_query(category) == category \o " tools and companies"
BlankConfig == [openai_api_key |-> "", firecrawl_api_key |-> ""]

Init ==
    /\ config = BlankConfig
    /\ wf = "none"
    /\ constructed = {}
    /\ ctor_config = BlankConfig
    /\ ctor_error = <<>>
    /\ pc = "idle"
    /\ query = ""
    /\ max_results = 1
    /\ start_time = 0
    /\ pending = <<>>
    /\ scraped_results = <<>>
    /\ companies = <<>>
    /\ disc = <<>>
    /\ extra = <<>>
    /\ calls = <<>>
    /\ outcome = "none"
    /\ path = "none"
    /\ result = NoResult
    /\ health = NoHealth
    /\ clock = 0
    /\ last_op = "none"
    /\ args = NoArgs
    /\ scraped_data = <<>>
    /\ ret = NoReturn

\* Workflow.__init__: what the constructor call leaves behind, given the config
\* passed and whether the environment holds FIRECRAWL_API_KEY (WebScraperTool
\* reads it from the environment and raises without it)
workflow_init(cfg, env_firecrawl) ==
    IF validate_keys(cfg) # <<>>
    THEN [wf |-> "config_error", constructed |-> {}, error |-> validate_keys(cfg)]
    ELSE IF ~env_firecrawl
    THEN [wf |-> "agent_error", constructed |-> {}, error |-> <<>>]
    ELSE [wf |-> "ready", constructed |-> {"research_agent", "analysis_agent"},
          error |-> <<>>]

\* Workflow(config)
Construct(cfg, env_firecrawl) ==
    /\ wf # "ready"
    /\ LET w == workflow_init(cfg, env_firecrawl) IN
         /\ wf' = w.wf
         /\ constructed' = w.constructed
         /\ ctor_error' = w.error
         /\ config' = IF w.wf = "ready" THEN cfg ELSE config
    /\ ctor_config' = cfg
    /\ UNCHANGED <<runVars, health, clock, opVars>>

\* time.time() reads t: the clock does not go backwards
Reads(t) ==
    /\ t \in clock..MaxClock
    /\ clock' = t

\* a call begins: the locals and the returned value of the call before are gone
Enter(q, m, t) ==
    /\ query' = q
    /\ max_results' = m
    /\ start_time' = t
    /\ pending' = <<>>
    /\ scraped_results' = <<>>
    /\ companies' = <<>>
    /\ disc' = <<>>
    /\ extra' = <<>>
    /\ calls' = <<>>
    /\ outcome' = "none"
    /\ path' = "none"
    /\ result' = NoResult
    /\ last_op' = "none"
    /\ args' = NoArgs
    /\ scraped_data' = <<>>
    /\ ret' = NoReturn

\* the caller assigns to a field of the Config it shares with the Workflow
\* (Config is a pydantic model that is not frozen)
SetConfig(cfg) ==
    /\ wf = "ready"
    /\ pc = "idle"
    /\ cfg # config
    /\ config' = cfg
    /\ Enter("", 1, 0)
    /\ health' = NoHealth
    /\ UNCHANGED <<wf, constructed, ctor_config, ctor_error, pc, clock>>

\* a run that refuses to start after a health check that was not healthy
RunStart_gated(q, m, t) ==
    /\ wf = "ready"
    /\ pc = "idle"
    /\ health.status \in {"none", "healthy"}
    /\ Reads(t)
    /\ pc' = "search"
    /\ Enter(q, m, t)
    /\ health' = NoHealth
    /\ UNCHANGED ctorVars

\* run(query, max_results): entry, up to the call of search_companies
RunStart(q, m, t) ==
    /\ wf = "ready"
    /\ pc = "idle"
    /\ Reads(t)
    /\ pc' = "search"
    /\ Enter(q, m, t)
    /\ health' = NoHealth
    /\ UNCHANGED ctorVars

\* search_by_category(category, max_results): run with the query of the category
SearchByCategory(category, m, t) == RunStart(category_query(category), m, t)

\* health_check()
HealthCheck(llm_ok, firecrawl_ok, t) ==
    /\ wf = "ready"
    /\ pc = "idle"
    /\ Reads(t)
    /\ health' = health_check(config, llm_ok, firecrawl_ok, t)
    /\ query' = ""
    /\ max_results' = 1
    /\ start_time' = 0
    /\ pending' = <<>>
    /\ scraped_results' = <<>>
    /\ companies' = <<>>
    /\ disc' = <<>>
    /\ extra' = <<>>
    /\ calls' = <<Call("probe_llm", "test", 0, <<>>, IF llm_ok THEN "ok" ELSE "raise"),
                  Call("probe_firecrawl", "", 0, <<>>,
                       IF firecrawl_ok THEN "ok" ELSE "raise")>>
    /\ outcome' = "none"
    /\ path' = "none"
    /\ result' = NoResult
    /\ last_op' = "none"
    /\ args' = NoArgs
    /\ scraped_data' = <<>>
    /\ ret' = NoReturn
    /\ UNCHANGED <<ctorVars, pc>>

\* search_and_scrape: the search call
Search(out) ==
    /\ pc = "search"
    /\ calls' = Append(calls, Call("search", query, max_results, <<>>, out.kind))
    /\ pending' = IF out.kind = "ok" THEN out.data ELSE <<>>
    /\ pc' = IF out.kind = "ok" /\ out.data # <<>> THEN "scrape" ELSE "process"
    /\ UNCHANGED <<ctorVars, query, max_results, start_time, scraped_results,
                   companies, disc, extra, outcome, path, result, health, clock,
                   opVars>>

\* a loop that scrapes a url again when its scrape did not succeed
ScrapeNext_retrying(out) ==
    /\ pc = "scrape"
    /\ pending # <<>>
    /\ LET entry == Head(pending)
           again == entry \notin {"", Malformed} /\ out.kind # "ok" /\ Len(calls) < 3
       IN
         /\ scraped_results' =
               IF entry \in {"", Malformed} \/ again THEN scraped_results
               ELSE Append(scraped_results, scraper_run(entry, out))
         /\ calls' = IF entry \in {"", Malformed} THEN calls
                     ELSE Append(calls, Call("scrape", entry, 0, <<>>, ""))
         /\ pending' = IF again THEN pending ELSE Tail(pending)
         /\ pc' = IF pending' = <<>> THEN "process" ELSE "scrape"
    /\ UNCHANGED <<ctorVars, query, max_results, start_time, companies, disc, extra,
                   outcome, path, result, health, clock, opVars>>

\* search_and_scrape: one iteration of the loop over the search data; an entry
\* that is no dict raises, and the handler returns [] for the whole search
ScrapeNext(out) ==
    /\ pc = "scrape"
    /\ pending # <<>>
    /\ LET entry == Head(pending) IN
         IF entry = Malformed
         THEN /\ scraped_results' = <<>>
              /\ pending' = <<>>
              /\ pc' = "process"
              /\ calls' = calls
         ELSE /\ scraped_results' =
                    IF entry = "" THEN scraped_results
                    ELSE Append(scraped_results, scraper_run(entry, out))
              /\ calls' = IF entry = "" THEN calls
                          ELSE Append(calls, Call("scrape", entry, 0, <<>>, ""))
              /\ pending' = Tail(pending)
              /\ pc' = IF Tail(pending) = <<>> THEN "process" ELSE "scrape"
    /\ UNCHANGED <<ctorVars, query, max_results, start_time, companies, disc, extra,
                   outcome, path, result, health, clock, opVars>>

\* what run leaves behind when it ends with r (of run(...))
RunEnds(r) ==
    /\ outcome' = IF r.exc = "none" THEN "returned" ELSE "raised"
    /\ path' = r.path
    /\ result' = r.result
    /\ calls' = calls \o r.calls
    /\ pc' = "idle"

\* search_companies: the loop over scraped_results, and the return when there
\* are enough companies
Process ==
    /\ pc = "process"
    /\ disc' = ProcessScraped(scraped_results)
    /\ scraped_results' = <<>>
    /\ IF needs_backfill(disc', max_results)
       THEN /\ companies' = disc'
            /\ pc' = "backfill"
       ELSE /\ companies' = search_companies_return(disc', max_results)
            /\ pc' = "analyze"
    /\ UNCHANGED <<ctorVars, query, max_results, start_time, pending, extra, calls,
                   outcome, path, result, health, clock, opVars>>

\* search_companies: the backfill and the return; an exception out of the
\* backfill would leave search_companies and reach run's handler
Backfill(resp, t) ==
    /\ pc = "backfill"
    /\ LET g == generate_companies_with_llm(resp)
           made == Append(calls, Call("generate", query,
                                      backfill_count(companies, max_results),
                                      WellFormedOf(resp.elems), Shape(resp)))
       IN
         IF g.exc # "none"
         THEN /\ Reads(t)
              /\ LET r == run(query, g.exc, <<>>, resp, elapsed(start_time, t)) IN
                   /\ outcome' = IF r.exc = "none" THEN "returned" ELSE "raised"
                   /\ path' = r.path
                   /\ result' = r.result
              /\ calls' = made
              /\ pc' = "idle"
              /\ UNCHANGED <<extra, companies>>
         ELSE /\ t = clock
              /\ calls' = made
              /\ extra' = g.val
              /\ companies' = search_companies_return(extend(companies, g.val),
                                                      max_results)
              /\ pc' = "analyze"
              /\ UNCHANGED <<outcome, path, result, clock>>
    /\ UNCHANGED <<ctorVars, query, max_results, start_time, pending, scraped_results,
                   disc, health, opVars>>

\* run, from the return of search_companies to its own return: the analysis
\* (with the llm's answer resp) and the result
Finish(resp, t) ==
    /\ pc = "analyze"
    /\ Reads(t)
    /\ RunEnds(run(query, "none", companies, resp, elapsed(start_time, t)))
    /\ UNCHANGED <<ctorVars, query, max_results, start_time, pending, scraped_results,
                   companies, disc, extra, health, opVars>>

\* an operation other than run is called: what the call before left is gone
Begin(name, a) ==
    /\ wf = "ready"
    /\ pc = "idle"
    /\ last_op' = name
    /\ args' = a
    /\ query' = ""
    /\ max_results' = 1
    /\ start_time' = 0
    /\ pending' = <<>>
    /\ scraped_results' = <<>>
    /\ companies' = <<>>
    /\ disc' = <<>>
    /\ extra' = <<>>
    /\ outcome' = "none"
    /\ path' = "none"
    /\ result' = NoResult
    /\ health' = NoHealth
    /\ UNCHANGED <<ctorVars, pc, clock>>

\* compare_companies(companies, criteria)
CompareCompanies(cs, criteria, resp) ==
    /\ Begin("compare_companies", Args(cs, criteria, None, None, None))
    /\ LET r == workflow_compare_companies(cs, criteria, resp) IN
         /\ ret' = r
         /\ calls' = r.calls
    /\ scraped_data' = <<>>

\* get_recommendations(companies, user_requirements)
GetRecommendations(cs, requirements, resp) ==
    /\ Begin("get_recommendations", Args(cs, <<>>, requirements, None, None))
    /\ LET r == get_recommendations(cs, requirements, resp) IN
         /\ ret' = r
         /\ calls' = r.calls
    /\ scraped_data' = <<>>

\* research_company(company_name, website)
ResearchCompany(company_name, website, out, resp) ==
    /\ Begin("research_company", Args(<<>>, <<>>, None, company_name, website))
    /\ LET r == research_company(company_name, website, out, resp) IN
         /\ ret' = r
         /\ calls' = r.calls
    /\ scraped_data' = IF Supplied(website) THEN <<scraper_run(website, out)>> ELSE <<>>

\* analysis_agent.analyze_companies(companies, query), called on the agent the
\* Workflow holds; the call of the llm is logged with the whole prompt sent, of
\* which the log of a run keeps the query
AnalyzeCompanies(cs, q, resp) ==
    /\ wf = "ready"
    /\ pc = "idle"
    /\ last_op' = "analyze_companies"
    /\ args' = Args(cs, <<>>, None, None, None)
    /\ query' = q
    /\ LET r == analyze_companies(cs, q, resp)
           sent == [i \in 1..Len(r.calls) |->
                      [r.calls[i] EXCEPT !.arg = analyze_prompt(cs, q)]]
       IN
         /\ ret' = Returns(r.exc, r.type, r.text, <<>>, sent)
         /\ calls' = sent
    /\ max_results' = 1
    /\ start_time' = 0
    /\ pending' = <<>>
    /\ scraped_results' = <<>>
    /\ companies' = <<>>
    /\ disc' = <<>>
    /\ extra' = <<>>
    /\ outcome' = "none"
    /\ path' = "none"
    /\ result' = NoResult
    /\ health' = NoHealth
    /\ scraped_data' = <<>>
    /\ UNCHANGED <<ctorVars, pc, clock>>

\* the arguments the caller passes
CriteriaArgs == {<<>>, <<DefaultCriteria>>, <<<<"language_support">>>>}
RequirementsArgs == {None, "must be open source"}
CompanyNames == {"Docker"}
Websites == {None, "", "docker.com"}

\* scrape_url answers only when get_company_details calls it, and the llm only
\* when the fallback is reached
ScrapeAnswers(website) ==
    IF Supplied(website) THEN DetailScrapeOutcomes
    ELSE {[kind |-> "fail", extract |-> EmptyMap]}
DetailAnswers(website, out) ==
    IF Supplied(website) /\ out.kind = "ok"
    THEN {[kind |-> "raise", elems |-> <<>>, obj |-> GenNoName]}
    ELSE DetailResponses

Next ==
    \/ \E cfg \in Configs, env_firecrawl \in BOOLEAN : Construct(cfg, env_firecrawl)
    \/ \E cfg \in Configs : SetConfig(cfg)
    \/ \E llm_ok, firecrawl_ok \in BOOLEAN, t \in 0..MaxClock :
          HealthCheck(llm_ok, firecrawl_ok, t)
    \/ \E q \in Queries, m \in 1..MaxCap, t \in 0..MaxClock : RunStart(q, m, t)
    \/ \E category \in Categories, m \in 1..MaxCap, t \in 0..MaxClock :
          SearchByCategory(category, m, t)
    \/ \E out \in SearchOutcomes : Search(out)
    \/ \E out \in ScrapeOutcomes : ScrapeNext(out)
    \/ Process
    \/ \E resp \in GenResponses, t \in 0..MaxClock : Backfill(resp, t)
    \/ \E resp \in AnalysisResponses, t \in 0..MaxClock : Finish(resp, t)

Spec == Init /\ [][Next]_vars

\* The operations other than run, called in any order on a Workflow: each is
\* one call of the caller, made between runs.
OpsNext ==
    \/ \E cfg \in Configs, env_firecrawl \in BOOLEAN : Construct(cfg, env_firecrawl)
    \/ \E cfg \in Configs : SetConfig(cfg)
    \/ \E llm_ok, firecrawl_ok \in BOOLEAN, t \in 0..MaxClock :
          HealthCheck(llm_ok, firecrawl_ok, t)
    \/ \E cs \in RecordLists, criteria \in CriteriaArgs, resp \in AnalysisResponses :
          CompareCompanies(cs, criteria, resp)
    \/ \E cs \in RecordLists, requirements \in RequirementsArgs,
          resp \in AnalysisResponses : GetRecommendations(cs, requirements, resp)
    \/ \E company_name \in CompanyNames, website \in Websites :
          \E out \in ScrapeAnswers(website) :
             \E resp \in DetailAnswers(website, out) :
                ResearchCompany(company_name, website, out, resp)
    \/ \E cs \in AnalyzedLists, q \in Queries, resp \in AnalysisResponses :
          AnalyzeCompanies(cs, q, resp)

OpsSpec == Init /\ [][OpsNext]_vars

\* The runs and the other operations together, on one Workflow: between two
\* runs the caller compares, asks for recommendations or researches a company
\* (with one list of records and one company), or checks the health.  The
\* searches here find at most one entry and the backfill's arrays have at most
\* one element.
AllNext ==
    \/ \E cfg \in Configs, env_firecrawl \in BOOLEAN : Construct(cfg, env_firecrawl)
    \/ \E cfg \in Configs : SetConfig(cfg)
    \/ \E llm_ok, firecrawl_ok \in BOOLEAN, t \in 0..MaxClock :
          HealthCheck(llm_ok, firecrawl_ok, t)
    \/ \E q \in Queries, m \in 1..MaxCap, t \in 0..MaxClock : RunStart(q, m, t)
    \/ \E category \in Categories, m \in 1..MaxCap, t \in 0..MaxClock :
          SearchByCategory(category, m, t)
    \/ \E out \in {o \in SearchOutcomes : Len(o.data) <= 1} : Search(out)
    \/ \E out \in ScrapeOutcomes : ScrapeNext(out)
    \/ Process
    \/ \E resp \in {r \in GenResponses : Len(r.elems) <= 1}, t \in 0..MaxClock :
          Backfill(resp, t)
    \/ \E resp \in AnalysisResponses, t \in 0..MaxClock : Finish(resp, t)
    \/ \E resp \in AnalysisResponses : CompareCompanies(<<RecMongo>>, <<>>, resp)
    \/ \E resp \in AnalysisResponses : GetRecommendations(<<RecMongo>>, None, resp)
    \/ \E out \in {o \in ScrapeOutcomes : o.extract \in {EmptyMap, ExDocker}},
          resp \in {r \in DetailResponses : r.kind = "raise" \/ r.obj = GenMongo} :
          ResearchCompany("Docker", "docker.com", out, resp)

AllSpec == Init /\ [][AllNext]_vars

-----------------------------------------------------------------------------
(* The claims.                                                             *)

\* run has ended and its result is still the last value returned
RunEnded == pc = "idle" /\ outcome # "none"

\* search_companies has returned (run is about to analyze, or has ended)
SearchReturned == pc = "analyze" \/ RunEnded

IsPrefix(s, t) == Len(s) <= Len(t) /\ \A i \in 1..Len(s) : s[i] = t[i]

\* a step of run is enabled
RunCanStep ==
    \/ \E out \in SearchOutcomes : ENABLED Search(out)
    \/ \E out \in ScrapeOutcomes : ENABLED ScrapeNext(out)
    \/ ENABLED Process
    \/ \E resp \in GenResponses, t \in 0..MaxClock : ENABLED Backfill(resp, t)
    \/ \E resp \in AnalysisResponses, t \in 0..MaxClock : ENABLED Finish(resp, t)

\* C1: run never raises to its caller: whatever the search, the scrapes, the
\* backfill and the analysis answer, a run in progress can always take its next
\* step, a run that has ended has returned a result by one of its three return
\* statements, and the result of the failure path has companies = [],
\* total_results = 0 and the failure text as analysis.
C1_RunNeverRaises ==
    /\ outcome # "raised"
    /\ pc # "idle" => outcome = "none" /\ RunCanStep
    /\ RunEnded => outcome = "returned" /\ path \in {"empty", "success", "failure"}
    /\ path = "failure" =>
         /\ result.companies = <<>>
         /\ result.total_results = 0
         /\ result.analysis = ResearchFailed

\* a run whose analysis answer made the result invalid has returned by the handler
C1_Witness ==
    /\ RunEnded
    /\ path = "failure"
    /\ \E i \in 1..Len(calls) : calls[i].op = "analyze" /\ calls[i].out = "list"

\* C2: every result run returns, by whichever of the three return statements,
\* has total_results = len(companies).
C2_TotalIsLength ==
    RunEnded => result.total_results = Len(result.companies)

\* a run has returned two companies
C2_Witness == RunEnded /\ path = "success" /\ Len(result.companies) = 2

\* C3: every record in the companies of a result has a non-empty name.
\* The backfill breaks it: Company accepts "name": "" from the generator.
C3_NamesNonEmpty ==
    RunEnded => \A i \in 1..Len(result.companies) : result.companies[i].name # ""

\* C4: the companies of a result are at most max_results, and they are a prefix
\* of the discovery records, in discovery order, followed by the backfill
\* records, in the order the backfill returned them.
C4_CapAndOrder ==
    RunEnded =>
        /\ Len(result.companies) <= max_results
        /\ IsPrefix(result.companies, disc \o extra)

\* discovery and backfill together produced more than max_results, and the
\* result holds records of both
C4_Witness ==
    /\ RunEnded
    /\ path = "success"
    /\ disc # <<>>
    /\ extra # <<>>
    /\ Len(disc) + Len(extra) > max_results
    /\ Len(result.companies) > Len(disc)

\* C5: when discovery yields no record and backfill yields none, run returns
\* (it does not raise) the result with companies = [], total_results = 0 and
\* the fixed "no results" message, and analyze_companies is not called.
C5_NoResults ==
    (RunEnded /\ disc = <<>> /\ extra = <<>>) =>
        /\ outcome = "returned"
        /\ path = "empty"
        /\ result.companies = <<>>
        /\ result.total_results = 0
        /\ result.analysis = NoResultsMessage
        /\ CallsOf(calls, "analyze_companies") = <<>>
        /\ CallsOf(calls, "analyze") = <<>>

\* the empty query found nothing, and the backfill, asked, gave nothing
C5_Witness ==
    /\ RunEnded
    /\ query = ""
    /\ disc = <<>>
    /\ extra = <<>>
    /\ CallsOf(calls, "generate") # <<>>

\* the llm raised on the analyze call of this run
AnalyzeRaised == \E i \in 1..Len(calls) : calls[i].op = "analyze" /\ calls[i].out = "raise"

\* C6: when the llm raises on the analyze call, run returns the companies
\* search_companies returned, unchanged, with total_results their number and
\* the fixed "analysis failed" string as analysis: not the failure result.
C6_AnalysisFailureKeepsCompanies ==
    (RunEnded /\ AnalyzeRaised) =>
        /\ outcome = "returned"
        /\ path = "success"
        /\ result.analysis = AnalysisFailed
        /\ result.companies = companies
        /\ result.companies # <<>>
        /\ result.total_results = Len(companies)

\* the llm raised on the analysis of two companies
C6_Witness == RunEnded /\ AnalyzeRaised /\ Len(companies) = 2

\* the configuration lacks a key
KeyMissing(cfg) == cfg.openai_api_key = "" \/ cfg.firecrawl_api_key = ""

\* a probe of the health check just made failed
ProbeFailed == \E i \in 1..Len(calls) : calls[i].out = "raise"

\* C7: health_check returns "unhealthy" whenever a key is missing, whatever the
\* probes gave; "degraded" when the keys are there and a probe failed; "healthy"
\* only when the keys are there and both probes succeeded.  What it returns has
\* the fields status, components and timestamp.
C7_HealthStatus ==
    health.status # "none" =>
        /\ DOMAIN health = {"status", "components", "timestamp"}
        /\ health.status \in {"healthy", "degraded", "unhealthy"}
        /\ KeyMissing(config) => health.status = "unhealthy"
        /\ (~KeyMissing(config) /\ ProbeFailed) => health.status = "degraded"
        /\ health.status = "healthy" => ~KeyMissing(config) /\ ~ProbeFailed

\* a key is missing and a probe failed: the missing key decides
C7_Witness == health.status = "unhealthy" /\ ProbeFailed

\* C8: a constructor call with a configuration that lacks a key fails with the
\* error that names the missing keys, with no agent constructed and no call
\* made; a Workflow exists, and run is running or has run, only after a
\* constructor call whose configuration had both keys.
C8_ConstructionNeedsKeys ==
    /\ (wf # "none" /\ KeyMissing(ctor_config)) =>
         /\ wf = "config_error"
         /\ constructed = {}
         /\ calls = <<>>
         /\ ctor_error =
              (IF ctor_config.openai_api_key = "" THEN <<"OPENAI_API_KEY">> ELSE <<>>)
              \o (IF ctor_config.firecrawl_api_key = ""
                  THEN <<"FIRECRAWL_API_KEY">> ELSE <<>>)
    /\ wf = "ready" => ~KeyMissing(ctor_config)
    /\ (pc # "idle" \/ outcome # "none" \/ calls # <<>>) => wf = "ready"

\* the constructor has refused a configuration without the FireCrawl key
C8_Witness == wf = "config_error" /\ ctor_error = <<"FIRECRAWL_API_KEY">>

\* C9: search_companies asks the backfill if and only if the discovery records
\* are fewer than max_results, once, for max_results minus their number and for
\* the same query; when they are as many as max_results the backfill is not
\* asked and search_companies returns exactly them (and their first
\* max_results when they are more).
C9_BackfillIffShort ==
    SearchReturned =>
        LET gen == CallsOf(calls, "generate") IN
        /\ Len(disc) < max_results <=> gen # <<>>
        /\ Len(gen) <= 1
        /\ gen # <<>> => gen[1].n = max_results - Len(disc) /\ gen[1].arg = query
        /\ Len(disc) = max_results => extra = <<>> /\ companies = disc
        /\ Len(disc) > max_results =>
             extra = <<>> /\ companies = SubSeq(disc, 1, max_results)

\* one discovery record with a cap of two: the backfill was asked for one
C9_Witness ==
    /\ RunEnded
    /\ Len(disc) = 1
    /\ max_results = 2
    /\ CallsOf(calls, "generate") # <<>>
    /\ CallsOf(calls, "generate")[1].n = 1

\* the answers to the backfill that are a failure or do not have the expected
\* structure
FailedShapes == {"raise", "nonstr", "notjson", "scalar", "object", "array of non-objects"}

BackfillFailed ==
    \E i \in 1..Len(calls) : calls[i].op = "generate" /\ calls[i].out \in FailedShapes

\* C10: when the backfill's llm call fails or its answer has not the expected
\* structure, the backfill gives no record and raises nothing: search_companies
\* returns the discovery records, and run goes on to analyze them (to the "no
\* results" return when there are none).
C10_FailedBackfillGivesNothing ==
    (SearchReturned /\ BackfillFailed) =>
        /\ extra = <<>>
        /\ companies = disc
        /\ outcome # "raised"
        /\ (RunEnded /\ disc = <<>>) => path = "empty"
        /\ (RunEnded /\ disc # <<>>) =>
             /\ CallsOf(calls, "analyze_companies") # <<>>
             /\ CallsOf(calls, "analyze_companies")[1].recs = disc

\* an array of non-objects came back after a discovery record was found, and
\* the run returned that record
C10_Witness ==
    /\ RunEnded
    /\ disc # <<>>
    /\ \E i \in 1..Len(calls) :
          calls[i].op = "generate" /\ calls[i].out = "array of non-objects"
    /\ path = "success"
    /\ result.companies = disc

\* the call of the backfill's llm in this run, if it answered with an array of
\* objects of which some merely lack the name and the others are well-formed
NamelessAnswers ==
    {i \in 1..Len(calls) :
        calls[i].op = "generate" /\ calls[i].out = "array with nameless objects"}

\* C11: when the generator returns an array in which some records lack the name
\* and the others are well-formed, the backfill gives exactly the well-formed
\* records, in the array's order, and search_companies appends them to the
\* discovery records (up to max_results).
\* The code breaks it: one invalid record raises out of the list comprehension
\* and the handler returns [] for the whole array.
C11_OnlyInvalidDropped ==
    SearchReturned =>
        \A i \in NamelessAnswers :
            /\ extra = calls[i].recs
            /\ companies = Take(disc \o calls[i].recs, max_results)

\* research_company has returned, and a website was supplied to it
ResearchedWithWebsite == last_op = "research_company" /\ Supplied(args.website)

\* the statement of C12 as claimed: with a website supplied the scrape and its
\* normalization alone decide, a scrape failure or a blank extracted name gives
\* absent, and the generation request is issued only when no website is supplied.
\* The code breaks it: a failed scrape falls through to the generation request.
C12_WebsiteDecidesAlone ==
    last_op = "research_company" =>
        /\ CallsOf(calls, "details") # <<>> => ~Supplied(args.website)
        /\ (/\ Supplied(args.website)
            /\ \/ ~scraped_data[1].success
               \/ ~Truthy(scraped_data[1].extracted_data, "company_name"))
           => ret.kind = "None"

\* C12 (amended): in research_company, when a website is supplied and its
\* scrape succeeds, the normalization of the scraped data alone decides (a blank
\* extracted name gives absent) and no generation request is issued; when no
\* website is supplied or the scrape fails, the single-record generation request
\* is issued, once, for the company name, and decides: a record if the answer is
\* one valid object, absent otherwise.  The website is scraped once if supplied,
\* not at all if not.
C12_ScrapeThenFallback ==
    last_op = "research_company" =>
        LET scraped_ok == Supplied(args.website) /\ scraped_data[1].success
            details == CallsOf(calls, "details")
            scrapes == CallsOf(calls, "scrape")
        IN
        /\ ret.exc = "none"
        /\ ret.kind \in {"record", "None"}
        /\ ret.kind = "record" <=> Len(ret.record) = 1
        /\ Supplied(args.website) =>
             Len(scrapes) = 1 /\ scrapes[1].arg = args.website /\ Len(scraped_data) = 1
        /\ ~Supplied(args.website) => scrapes = <<>> /\ scraped_data = <<>>
        /\ scraped_ok =>
             /\ details = <<>>
             /\ ~Truthy(scraped_data[1].extracted_data, "company_name") => ret.kind = "None"
             /\ ret.kind = "record" =>
                  /\ ret.record[1].website = args.website
                  /\ ret.record[1].name = scraped_data[1].extracted_data.val.company_name
        /\ ~scraped_ok =>
             /\ Len(details) = 1
             /\ details[1].arg = "Research the company/tool: " \o args.company_name
             /\ details[1].out # "object" => ret.kind = "None"

\* the scrape of the supplied website failed and the generation gave a record
C12_Witness ==
    /\ ResearchedWithWebsite
    /\ ~scraped_data[1].success
    /\ CallsOf(calls, "details") # <<>>
    /\ ret.kind = "record"

\* the contents the llm can generate that have the kind of the answer logged
Generated(kind) == {r.content : r \in {a \in AnalysisResponses : a.kind = kind}}

\* what compare_companies or get_recommendations returned is the content the
\* llm generated on its one call, or, the call having raised, the message failed
TextOrFailure(op, failed) ==
    LET made == CallsOf(calls, op) IN
    /\ Len(made) = 1
    /\ made[1].recs = args.companies
    /\ made[1].out = "raise" => ret.kind = "str" /\ ret.text = failed
    /\ made[1].out # "raise" => ret.kind = made[1].out /\ ret.text \in Generated(made[1].out)

\* C13: compare_companies, get_recommendations and research_company of Workflow
\* never raise, whatever the records and whatever the collaborators answer: for
\* a non-empty list compare and recommend return the generated content or their
\* fixed failure message (for an empty list, their fixed message for it), and
\* research_company returns a record or None.
C13_OperationsNeverRaise ==
    last_op # "none" =>
        /\ ret.exc = "none"
        /\ last_op = "compare_companies" =>
             IF args.companies = <<>>
             THEN ret.kind = "str" /\ ret.text = NoCompaniesToCompare
             ELSE TextOrFailure("compare", ComparisonFailed)
        /\ last_op = "get_recommendations" =>
             IF args.companies = <<>>
             THEN ret.kind = "str" /\ ret.text = NoCompaniesToRecommend
             ELSE TextOrFailure("recommend", RecommendationsFailed)
        /\ last_op = "research_company" =>
             /\ ret.kind \in {"record", "None"}
             /\ Len(ret.record) = IF ret.kind = "record" THEN 1 ELSE 0

\* the llm raised on a comparison of two records, and the caller got the message
C13_Witness ==
    /\ last_op = "compare_companies"
    /\ Len(args.companies) = 2
    /\ CallsOf(calls, "compare") # <<>>
    /\ CallsOf(calls, "compare")[1].out = "raise"
    /\ ret.text = ComparisonFailed

\* C14: compare_companies(records) with criteria unset sends the llm the prompt
\* that compare_companies(records, criteria = the four default fields) sends,
\* and returns what that call returns for the same answer of the llm, for every
\* list of records.
C14_DefaultCriteria ==
    (last_op = "compare_companies" /\ args.criteria = <<>>) =>
        \E resp \in AnalysisResponses :
            LET explicit == workflow_compare_companies(
                                args.companies,
                                <<<<"pricing_model", "is_open_source", "api_available",
                                    "tech_stack">>>>,
                                resp)
            IN  /\ calls # <<>> => resp.kind = calls[1].out
                /\ calls = explicit.calls
                /\ ret = explicit

\* a comparison of two records without criteria returned the generated text
C14_Witness ==
    /\ last_op = "compare_companies"
    /\ args.criteria = <<>>
    /\ Len(args.companies) = 2
    /\ Len(calls) = 1
    /\ ret.text = "Test analysis"

\* C15: whenever run returns one or more companies, they are exactly the list
\* search_companies returned, in its order, and analysis is present and is the
\* text analyze_companies returned for that whole list and the query of the
\* run: the llm's content, or the fixed failure text when the llm raised.
C15_AnalysisOfFullList ==
    (RunEnded /\ result.companies # <<>>) =>
        LET asked == CallsOf(calls, "analyze_companies")
            llm == CallsOf(calls, "analyze")
        IN
        /\ path = "success"
        /\ result.companies = companies
        /\ companies = Take(disc \o extra, max_results)
        /\ result.analysis # None
        /\ Len(asked) = 1 /\ asked[1].recs = result.companies /\ asked[1].arg = query
        /\ Len(llm) = 1 /\ llm[1].recs = result.companies /\ llm[1].arg = query
        /\ llm[1].out = "raise" => result.analysis = AnalysisFailed
        /\ llm[1].out # "raise" => result.analysis \in Generated(llm[1].out)

\* a run returned a discovery record and a backfill record with the llm's text
C15_Witness ==
    /\ RunEnded
    /\ Len(result.companies) = 2
    /\ Len(disc) = 1
    /\ Len(extra) >= 1
    /\ result.analysis = "Test analysis"

\* C16: the query of every result of run is the query run was called with,
\* unchanged, on each of the three return paths and for the empty string (for
\* search_by_category, the query it builds from the category); the search is
\* asked for that query as it is, once the run has started, whatever it is.
C16_QueryVerbatim ==
    /\ RunEnded =>
         /\ result.query = query
         /\ path \in {"empty", "success", "failure"}
    /\ (pc \in {"scrape", "process", "backfill", "analyze"} \/ RunEnded) =>
         /\ Len(CallsOf(calls, "search")) = 1
         /\ calls[1].op = "search"
         /\ calls[1].arg = query
         /\ calls[1].n = max_results
    /\ query \in {"", "database tools and companies"}

\* the empty query was searched for, and a run with it returned companies
C16_Witness ==
    /\ RunEnded
    /\ query = ""
    /\ path = "success"
    /\ calls[1].arg = ""
    /\ result.query = ""

\* C17: every result run returns, by whichever return statement, has a
\* search_time, and it is a number that is not negative: the reading of the
\* clock at the return less the reading at entry, the clock never going back.
C17_SearchTime ==
    RunEnded =>
        /\ "search_time" \in DOMAIN result
        /\ result.search_time \in 0..MaxClock
        /\ result.search_time = clock - start_time

\* a run that failed took time
C17_Witness == RunEnded /\ path = "failure" /\ result.search_time > 0

\* every operation can be called in this state, whatever was called before
AllCallable ==
    /\ \A q \in Queries, m \in 1..MaxCap : ENABLED RunStart(q, m, clock)
    /\ \A llm_ok \in BOOLEAN : ENABLED HealthCheck(llm_ok, TRUE, clock)
    /\ \A resp \in AnalysisResponses :
          /\ ENABLED CompareCompanies(<<RecMongo>>, <<>>, resp)
          /\ ENABLED GetRecommendations(<<RecMongo>>, None, resp)
    /\ \A out \in {o \in ScrapeOutcomes : o.extract \in {EmptyMap, ExDocker}} :
          ENABLED ResearchCompany("Docker", "docker.com", out,
                                  [kind |-> "raise", elems |-> <<>>, obj |-> GenNoName])

\* C18: no state is carried across calls.  Whatever calls were made before
\* (runs, comparisons, recommendations, researches, health checks, failed ones
\* too), every operation can be called on the Workflow; a run begins with
\* nothing left of the call before; and what a call returned is, apart from the
\* timing, what the operation gives for the arguments of that call and the
\* answers the collaborators gave during it.
C18_NoCarriedState ==
    /\ (last_op # "none" \/ health.status # "none") => AllCallable
    /\ RunEnded => ENABLED RunStart(query, max_results, clock)
    /\ pc = "search" =>
         /\ calls = <<>> /\ pending = <<>> /\ scraped_results = <<>>
         /\ companies = <<>> /\ disc = <<>> /\ extra = <<>>
         /\ outcome = "none" /\ last_op = "none" /\ health = NoHealth
    /\ RunEnded =>
         \E resp \in AnalysisResponses, e \in {"none", "Exception"} :
            LET cs == IF e = "none" THEN Take(disc \o extra, max_results) ELSE <<>>
                r == run(query, e, cs, resp, clock - start_time)
            IN  /\ CallsOf(calls, "analyze") # <<>> =>
                      resp.kind = CallsOf(calls, "analyze")[1].out
                /\ result = r.result
                /\ path = r.path
    /\ last_op = "compare_companies" =>
         \E resp \in AnalysisResponses :
            /\ calls # <<>> => resp.kind = calls[1].out
            /\ ret = workflow_compare_companies(args.companies, args.criteria, resp)
    /\ last_op = "get_recommendations" =>
         \E resp \in AnalysisResponses :
            /\ calls # <<>> => resp.kind = calls[1].out
            /\ ret = get_recommendations(args.companies, args.requirements, resp)
    /\ last_op = "research_company" =>
         \E out \in DetailScrapeOutcomes, resp \in DetailResponses :
            /\ scraped_data # <<>> => scraped_data[1] = scraper_run(args.website, out)
            /\ CallsOf(calls, "details") # <<>> =>
                  resp.kind = CallsOf(calls, "details")[1].out
            /\ ret = research_company(args.company_name, args.website, out, resp)
    /\ health.status # "none" =>
         \E llm_ok, firecrawl_ok \in BOOLEAN :
            /\ llm_ok <=> calls[1].out = "ok"
            /\ firecrawl_ok <=> calls[2].out = "ok"
            /\ health = health_check(config, llm_ok, firecrawl_ok, clock)

\* a health check has just returned "unhealthy" with a failed probe, and a run
\* can start
C18_Witness ==
    /\ health.status = "unhealthy"
    /\ ProbeFailed
    /\ pc = "idle"
    /\ ENABLED RunStart("", 1, clock)

\* an attempt marked successful whose company_name is not blank
Named(sd) == sd.success /\ Truthy(sd.extracted_data, "company_name")

\* such an attempt whose values the Company model accepts
Convertible(sd) == Named(sd) /\ CompanyValid(ScrapedKw(sd))

\* the records of attempts, one each, in their order
RecordsOf(attempts) == [i \in 1..Len(attempts) |-> Company(ScrapedKw(attempts[i]))]

FieldOf(k) ==
    IF k = "company_name" THEN "name"
    ELSE IF k = "integrations" THEN "integration_capabilities"
    ELSE k

\* research_company scraped the website and normalised the attempt to a record
NormalizedFromScrape ==
    /\ last_op = "research_company"
    /\ scraped_data # <<>>
    /\ scraped_data[1].success
    /\ ret.kind = "record"

\* C20: a record normalised from an extraction map has, for every key absent
\* from the map, the Company model's default in that key's field (None for the
\* optional texts, False for is_open_source, None for api_available, [] for
\* the lists), category None, and for every key present the map's value under
\* the renamed field.
\* The code breaks it: description, pricing_model, github_url and
\* documentation_url are read with .get(key, '') and come out as '' when absent.
C20_AbsentMapsToDefault ==
    NormalizedFromScrape =>
        LET ex == scraped_data[1].extracted_data
            c == ret.record[1]
        IN  /\ c.category = CompanyDefaults.category
            /\ \A k \in ExtractKeys :
                  c[FieldOf(k)] = IF k \in ex.has THEN ex.val[k]
                                  ELSE CompanyDefaults[FieldOf(k)]

\* the urls scraped so far, in the order of the calls
ScrapedUrls(log) ==
    LET s == CallsOf(log, "scrape") IN [i \in 1..Len(s) |-> s[i].arg]

\* the non-empty urls among entries, in order
RECURSIVE UrlsOf(_)
UrlsOf(entries) ==
    IF entries = <<>> THEN <<>>
    ELSE IF Head(entries) \in {"", Malformed} THEN UrlsOf(Tail(entries))
    ELSE <<Head(entries)>> \o UrlsOf(Tail(entries))

\* the non-empty urls among entries that come before the first entry that is
\* no object
RECURSIVE UrlsBeforeMalformed(_)
UrlsBeforeMalformed(entries) ==
    IF entries = <<>> \/ Head(entries) = Malformed THEN <<>>
    ELSE IF Head(entries) = "" THEN UrlsBeforeMalformed(Tail(entries))
    ELSE <<Head(entries)>> \o UrlsBeforeMalformed(Tail(entries))

\* the place of a collaborator call in the order of one run
Stage(c) ==
    CASE c.op = "search" -> 1
      [] c.op = "scrape" -> 2
      [] c.op = "generate" -> 3
      [] c.op = "analyze_companies" -> 4
      [] c.op = "analyze" -> 5
      [] OTHER -> 0

InRun == pc # "idle" \/ RunEnded

\* in a run: one search first, then the scrapes, then at most one generate once
\* no entry is left to scrape, then at most one analysis once search_companies
\* has returned; after a search that did not succeed nothing is scraped
FixedOrder ==
    InRun =>
        /\ pc = "search" <=> calls = <<>>
        /\ \A i \in 1..Len(calls) : Stage(calls[i]) # 0
        /\ \A i \in 1..Len(calls) : Stage(calls[i]) = 1 <=> i = 1
        /\ \A i, j \in 1..Len(calls) : i < j => Stage(calls[i]) <= Stage(calls[j])
        /\ \A k \in {"search", "generate", "analyze_companies", "analyze"} :
              Len(CallsOf(calls, k)) <= 1
        /\ (calls # <<>> /\ calls[1].out # "ok") => ScrapedUrls(calls) = <<>>
        /\ pc # "scrape" => pending = <<>>
        /\ (\E i \in 1..Len(calls) : Stage(calls[i]) >= 3) =>
              pc \in {"analyze", "idle"}
        /\ (\E i \in 1..Len(calls) : Stage(calls[i]) >= 4) => pc = "idle"

\* the statement of C21 as claimed: the calls of a run are in the fixed order,
\* each at most once, and every non-empty url of the search answer is scraped
\* exactly once, in search order (the urls scraped and those still to scrape
\* are together, at every step, the urls of the answer).
\* The code breaks it: an entry of the answer that is no object raises in the
\* loop of search_and_scrape, whose handler returns [] and leaves the urls
\* after that entry unscraped.
C21_EveryUrlScrapedOnce ==
    /\ []FixedOrder
    /\ [][pc = "scrape" =>
            ScrapedUrls(calls') \o UrlsOf(pending')
              = ScrapedUrls(calls) \o UrlsOf(pending)]_vars

\* C21 (amended): in one run the collaborator calls happen in a fixed order and
\* without retries: the discovery search is issued exactly once, each non-empty
\* url of the search answer that comes before the first entry that is no
\* object (all of them when every entry is an object) is scraped exactly once
\* and one at a time in search order, the urls after such an entry are not
\* scraped, the backfill generation request is issued at most once and only
\* after all scrapes, and analyze is issued at most once and only after
\* search_companies has returned; a failed call is never repeated.
C21_FixedOrderNoRetry ==
    /\ []FixedOrder
    /\ [][pc = "search" => ScrapedUrls(calls') = <<>>]_vars
    /\ [][pc = "scrape" =>
            /\ ScrapedUrls(calls') \o UrlsBeforeMalformed(pending')
                 = ScrapedUrls(calls) \o UrlsBeforeMalformed(pending)
            /\ Len(calls') <= Len(calls) + 1
            /\ Len(pending') < Len(pending)]_vars
    /\ [][(pc \in {"process", "backfill", "analyze"}) =>
            ScrapedUrls(calls') = ScrapedUrls(calls)]_vars

\* a run made every kind of call: the search, two scrapes in the order of the
\* answer, the backfill and the analysis
C21_Witness ==
    /\ RunEnded
    /\ Len(calls) = 6
    /\ ScrapedUrls(calls) = <<"docker.com", "redis.io">>
    /\ calls[4].op = "generate"
    /\ calls[6].op = "analyze"

\* the operation called last returned fixed and called the llm not at all
FixedWithoutCall(fixed) ==
    /\ ret.exc = "none"
    /\ ret.kind = "str"
    /\ ret.text = fixed
    /\ calls = <<>>

\* the operation called last called the llm once, as op, and nothing else
OneCall(op) == Len(calls) = 1 /\ calls[1].op = op /\ calls[1].recs = args.companies

\* C22: analyze_companies, compare_companies and generate_recommendations,
\* called with an empty list of records, return their own fixed message without
\* calling the llm; called with a non-empty list, each calls the llm exactly
\* once, whatever it answers.
C22_EmptyListNoCall ==
    /\ last_op = "analyze_companies" =>
         IF args.companies = <<>> THEN FixedWithoutCall(NoCompaniesForQuery)
         ELSE OneCall("analyze")
    /\ last_op = "compare_companies" =>
         IF args.companies = <<>> THEN FixedWithoutCall(NoCompaniesToCompare)
         ELSE OneCall("compare")
    /\ last_op = "get_recommendations" =>
         IF args.companies = <<>> THEN FixedWithoutCall(NoCompaniesToRecommend)
         ELSE OneCall("recommend")
    /\ Cardinality({NoCompaniesForQuery, NoCompaniesToCompare,
                    NoCompaniesToRecommend}) = 3

\* analyze_companies was called with an empty list and answered its message
C22_Witness ==
    /\ last_op = "analyze_companies"
    /\ args.companies = <<>>
    /\ ret.text = NoCompaniesForQuery
    /\ calls = <<>>

\* the line _format_comparison_data writes for one field of a company
FieldLine(f, company) ==
    CASE f = "pricing_model" -> "- Pricing: " \o company.pricing_model
      [] f = "is_open_source" -> "- Open Source: " \o YesNo(company.is_open_source)
      [] f = "api_available" -> "- API Available: " \o company.api_available
      [] f = "tech_stack" -> "- Tech Stack: " \o First3OrNA(company.tech_stack)
      [] f = "language_support" ->
            "- Language Support: " \o First3OrNA(company.language_support)
      [] f = "integration_capabilities" ->
            "- Integrations: " \o First3OrNA(company.integration_capabilities)

\* the fields _format_comparison_data can write, in the order it writes them
DisplayedFields ==
    <<"pricing_model", "is_open_source", "api_available", "tech_stack",
      "language_support", "integration_capabilities">>

\* the lines of a projection of company over the fields of criteria: the name,
\* then the line of each displayed field that criteria names
criteria_lines(criteria, company) ==
    LET named == SelectSeq(DisplayedFields,
                           LAMBDA f : \E i \in 1..Len(criteria) : criteria[i] = f)
    IN  <<"\n**" \o company.name \o ":**">>
        \o [i \in 1..Len(named) |-> FieldLine(named[i], company)]

RECURSIVE criteria_lines_of(_, _)
criteria_lines_of(criteria, cs) ==
    IF cs = <<>> THEN <<>>
    ELSE criteria_lines(criteria, Head(cs)) \o criteria_lines_of(criteria, Tail(cs))

\* C23: the prompt compare_companies sends for a non-empty list holds, for each
\* record, a projection over the criteria (the default four when criteria is
\* unset): the name and the value of each field the criteria name, no field the
\* criteria do not name, every list shown by its first 3 entries.
\* The code breaks it: the projection is the same seven fields whatever the
\* criteria, which appear in the first line of the prompt only.
C23_ProjectionOverCriteria ==
    (last_op = "compare_companies" /\ args.companies # <<>>) =>
        LET used == IF args.criteria = <<>> THEN DefaultCriteria ELSE args.criteria[1]
        IN  /\ Len(calls) = 1
            /\ calls[1].arg =
                 "Compare these companies/tools based on the following criteria: "
                 \o Join(used, ", ")
                 \o "\nCompanies to compare:\n"
                 \o Join(criteria_lines_of(used, args.companies), "\n")
                 \o "\nProvide a detailed comparison"

\* the API line of a record: none when api_available is unknown
ApiLine(company) ==
    CASE company.api_available = "True" -> <<"   - API Available: Yes">>
      [] company.api_available = "False" -> <<"   - API Available: No">>
      [] OTHER -> <<>>

\* the line of a list field: its first 5 entries at most, in stored order
RECURSIVE Listed(_, _)
Listed(l, n) ==
    IF l = <<>> \/ n = 0 THEN ""
    ELSE IF Len(l) = 1 \/ n = 1 THEN Head(l)
    ELSE Head(l) \o ", " \o Listed(Tail(l), n - 1)

ListLine(label, l) == IF l = <<>> THEN <<>> ELSE <<label \o Listed(l, 5)>>

\* the summary of the i-th record
SummaryOf(i, company) ==
    <<"\n" \o ToString(i) \o ". **" \o company.name \o "**",
      "   - Website: " \o OrNA(company.website),
      "   - Description: " \o OrNA(company.description),
      "   - Pricing: " \o OrNA(company.pricing_model),
      "   - Open Source: " \o YesNo(company.is_open_source)>>
    \o ListLine("   - Tech Stack: ", company.tech_stack)
    \o ListLine("   - Language Support: ", company.language_support)
    \o ApiLine(company)
    \o ListLine("   - Integrations: ", company.integration_capabilities)
    \o (IF company.category \in {None, ""} THEN <<>>
        ELSE <<"   - Category: " \o company.category>>)

RECURSIVE SummariesFrom(_, _)
SummariesFrom(i, cs) ==
    IF cs = <<>> THEN <<>>
    ELSE SummaryOf(i, Head(cs)) \o SummariesFrom(i + 1, Tail(cs))

\* C24: an unknown api_available is never turned into false.  The record
\* normalised from an extraction map without api_available has api_available
\* None; and the summary analyze_companies sends the llm holds, for each record,
\* the API line if and only if api_available is known ("Yes" for True, "No" for
\* False), and of tech_stack, language_support and integration_capabilities the
\* first 5 entries at most, in stored order.
C24_UnknownApiStaysUnknown ==
    /\ (/\ last_op = "research_company"
        /\ scraped_data # <<>>
        /\ scraped_data[1].success
        /\ ret.kind = "record"
        /\ "api_available" \notin scraped_data[1].extracted_data.has)
         => ret.record[1].api_available = None
    /\ (last_op = "analyze_companies" /\ args.companies # <<>>) =>
         /\ Len(calls) = 1
         /\ calls[1].arg =
              "Based on the following research results for the query: \""
              \o query \o "\"\n"
              \o Join(SummariesFrom(1, args.companies), "\n")
              \o "\nPlease provide a comprehensive analysis"

\* the summary of a record with api_available True and of one with it unknown
\* and more than 5 technologies was sent to the llm
C24_Witness ==
    /\ last_op = "analyze_companies"
    /\ args.companies = <<RecDocker, RecWide>>
    /\ RecDocker.api_available = "True"
    /\ RecWide.api_available = None
    /\ Len(RecWide.tech_stack) > 5
    /\ Len(calls) = 1

====
